---- MODULE Spec2Model ----
(***************************************************************************)
(* Model of bwbg/pwdgen: the Alphabet type, the free function              *)
(* produce_password (src/src/core.rs) and the PasswordFactory copy of the  *)
(* same algorithm that the command-line front end calls (src/src/main.rs). *)
(*                                                                         *)
(* A &str / String is a sequence of UTF-8 bytes, a char is its Unicode     *)
(* scalar value.  One behaviour is one call: Init draws the arguments,     *)
(* run builds the Alphabet objects, and the chosen callee executes step    *)
(* by step; every call of the random generator is a nondeterministic       *)
(* choice.                                                                 *)
(***************************************************************************)
EXTENDS Integers, Sequences, FiniteSets, TLC

\* ---- bounds of the model ------------------------------------------------
MaxLength == 3
MaxAlphabets == 2
MaxAlphabetLen == 2

\* scalar values the source strings are written with: 'A' and U+00F6
Scalars == {65, 246}

\* usize is 2^UsizeBits wide; 16 is the narrowest width Rust supports
UsizeBits == 16
UsizeModulus == 2 ^ UsizeBits

\* a Vec<char> holds at most isize::MAX bytes, four bytes a char
MaxVecLen == ((UsizeModulus \div 2) - 1) \div 4

VARIABLES
    length,           \* the requested password length (usize)
    args,             \* the alphabet source strings (&str, UTF-8 bytes)
    callee,           \* which copy of the algorithm runs
    pc,               \* position in the call
    alphabets,        \* Vec<Alphabet>
    abc,              \* position of the `for abc in alphabets` iterator
    password,         \* working buffer (core.rs password, main.rs symbols)
    symbols,          \* merged pool (core.rs symbols, main.rs all_symbols)
    fill_length,      \* main.rs: argument of random_from_any_alphabet
    i,                \* last index returned by gen_range
    draws,            \* number of indices gen_range has returned
    fills,            \* iterations of the fill loop
    panic,            \* panic message kind, "" if none
    result            \* the returned String (UTF-8 bytes)

vars == <<length, args, callee, pc, alphabets, abc, password,
          symbols, fill_length, i, draws, fills, panic, result>>

\* ---- UTF-8 ----------------------------------------------------------------
\* char -> its UTF-8 bytes (String: FromIterator<char>)
EncodeChar(c) ==
    IF c < 128 THEN <<c>>
    ELSE IF c < 2048 THEN <<192 + (c \div 64), 128 + (c % 64)>>
    ELSE IF c < 65536 THEN
        <<224 + (c \div 4096), 128 + ((c \div 64) % 64), 128 + (c % 64)>>
    ELSE <<240 + (c \div 262144), 128 + ((c \div 4096) % 64),
           128 + ((c \div 64) % 64), 128 + (c % 64)>>

\* width of the character a lead byte starts
Utf8Width(b) ==
    IF b < 128 THEN 1 ELSE IF b < 224 THEN 2 ELSE IF b < 240 THEN 3 ELSE 4

\* scalar value of the character at the head of s
DecodeHead(s) ==
    LET w == Utf8Width(s[1]) IN
    IF w = 1 THEN s[1]
    ELSE IF w = 2 THEN (s[1] - 192) * 64 + (s[2] - 128)
    ELSE IF w = 3 THEN
        (s[1] - 224) * 4096 + (s[2] - 128) * 64 + (s[3] - 128)
    ELSE (s[1] - 240) * 262144 + (s[2] - 128) * 4096
         + (s[3] - 128) * 64 + (s[4] - 128)

RECURSIVE Chars(_)
\* str::chars().collect(): the scalar values of s, in order
Chars(s) ==
    IF s = <<>> THEN <<>>
    ELSE LET w == Utf8Width(s[1]) IN
         <<DecodeHead(s)>> \o Chars(SubSeq(s, w + 1, Len(s)))

RECURSIVE Collect(_)
\* Vec<char> -> String
Collect(cs) ==
    IF cs = <<>> THEN <<>> ELSE EncodeChar(Head(cs)) \o Collect(Tail(cs))

\* ---- Alphabet -------------------------------------------------------------
\* a constructor that takes the bytes of s for its symbols
Alphabet_new_bytes(s) == [symbols |-> s]

Alphabet_new(s) == [symbols |-> Chars(s)]

Alphabet_get(a) == a.symbols

Alphabet_len(a) == Len(a.symbols)

\* value standing for the index-out-of-bounds panic of Vec indexing
OutOfBounds == -1

Alphabet_nth(a, n) ==
    IF n < Len(a.symbols) THEN a.symbols[n + 1] ELSE OutOfBounds

\* ---- random generator -----------------------------------------------------
\* gen_range(0..n): panics on an empty range, else any index below n
RangeIsEmpty(n) == n = 0

GenRange(n) == 0 .. (n - 1)

\* a shuffle that samples the buffer with replacement
ShufflesWithReplacement(buf) ==
    [1 .. Len(buf) -> { buf[k] : k \in 1 .. Len(buf) }]

\* slice.shuffle(): any permutation of the buffer
Shuffles(buf) ==
    { [k \in 1 .. Len(buf) |-> buf[f[k]]] : f \in Permutations(1 .. Len(buf)) }

\* ---- produce_password (core.rs) -------------------------------------------
\* the length check off by one, in either direction
LengthTooShortByTwo(len, n) == len + 1 < n

LengthNotGreater(len, n) == len <= n

LengthTooShort(len, n) == len < n

NoAlphabets(n) == n < 1

\* a buffer created with one NUL in it instead of empty
PresizedBuffer == <<0>>

NewBuffer == <<>>

RECURSIVE Distinct(_)
Distinct(seq) ==
    IF seq = <<>> THEN <<>>
    ELSE LET r == Distinct(SubSeq(seq, 1, Len(seq) - 1))
             x == seq[Len(seq)]
         IN IF \E k \in 1 .. Len(r) : r[k] = x THEN r ELSE Append(r, x)

RECURSIVE MergeDistinct(_)
\* a merge that keeps one copy of each symbol
MergeDistinct(as) ==
    IF as = <<>> THEN <<>>
    ELSE Distinct(Alphabet_get(Head(as)) \o MergeDistinct(Tail(as)))

RECURSIVE Merge(_)
\* for abc in alphabets { symbols.extend(abc.get()) }
Merge(as) ==
    IF as = <<>> THEN <<>> ELSE Alphabet_get(Head(as)) \o Merge(Tail(as))

\* the loop condition with <= for <
FillMoreInclusive(plen, len) == plen <= len

FillMore(plen, len) == plen < len

\* a first loop that draws from the merged pool instead of alphabet k
EachSourceAny(as, k) == [symbols |-> Merge(as)]

\* the sequence the coverage loop draws from when it visits alphabet k
EachSource(as, k) == as[k]

\* ---- inputs ---------------------------------------------------------------
SeqsUpTo(S, n) == UNION { [1 .. m -> S] : m \in 0 .. n }

\* every &str is valid UTF-8: the encoding of some sequence of scalars
Strs == { Collect(cs) : cs \in SeqsUpTo(Scalars, MaxAlphabetLen) }

Callees == {"produce_password", "PasswordFactory::produce"}

Init ==
    /\ length \in 0 .. MaxLength
    /\ args \in SeqsUpTo(Strs, MaxAlphabets)
    /\ callee \in Callees
    /\ pc = "new"
    /\ alphabets = <<>>
    /\ abc = 1
    /\ password = <<>>
    /\ symbols = <<>>
    /\ fill_length = 0
    /\ i = 0
    /\ draws = 0
    /\ fills = 0
    /\ panic = ""
    /\ result = <<>>

\* the caller builds one Alphabet per source string, then calls
run ==
    /\ pc = "new"
    /\ alphabets' = [k \in 1 .. Len(args) |-> Alphabet_new(args[k])]
    /\ pc' = "call"
    /\ UNCHANGED <<length, args, callee, abc, password,
                   symbols, fill_length, i, draws, fills, panic, result>>

Panics(msg) ==
    /\ pc' = "panic"
    /\ panic' = msg

inputs == <<length, args, callee, alphabets>>

produce_password_length_panic ==
    /\ pc = "call" /\ callee = "produce_password"
    /\ LengthTooShort(length, Len(alphabets))
    /\ Panics("length")
    /\ UNCHANGED <<inputs, abc, password, symbols, fill_length, i, draws,
                   fills, result>>

produce_password_alphabets_panic ==
    /\ pc = "call" /\ callee = "produce_password"
    /\ ~LengthTooShort(length, Len(alphabets))
    /\ NoAlphabets(Len(alphabets))
    /\ Panics("alphabets")
    /\ UNCHANGED <<inputs, abc, password, symbols, fill_length, i, draws,
                   fills, result>>

produce_password_begin ==
    /\ pc = "call" /\ callee = "produce_password"
    /\ ~LengthTooShort(length, Len(alphabets))
    /\ ~NoAlphabets(Len(alphabets))
    /\ password' = NewBuffer
    /\ abc' = 1
    /\ pc' = "each"
    /\ UNCHANGED <<inputs, symbols, fill_length, i, draws, fills, panic,
                   result>>

\* one iteration of the first loop: a symbol of the visited alphabet
produce_password_each ==
    /\ pc = "each" /\ callee = "produce_password"
    /\ abc <= Len(alphabets)
    /\ LET src == EachSource(alphabets, abc) IN
       IF RangeIsEmpty(Alphabet_len(src))
       THEN /\ Panics("empty range")
            /\ UNCHANGED <<abc, password, i, draws>>
       ELSE \E n \in GenRange(Alphabet_len(src)) :
            IF Alphabet_nth(src, n) = OutOfBounds
            THEN /\ Panics("index")
                 /\ i' = n
                 /\ draws' = draws + 1
                 /\ UNCHANGED <<abc, password>>
            ELSE /\ i' = n
                 /\ draws' = draws + 1
                 /\ password' = Append(password, Alphabet_nth(src, n))
                 /\ abc' = abc + 1
                 /\ UNCHANGED <<pc, panic>>
    /\ UNCHANGED <<inputs, symbols, fill_length, fills, result>>

\* the second loop: all symbols of all alphabets in one collection
produce_password_merge ==
    /\ pc = "each" /\ callee = "produce_password"
    /\ abc > Len(alphabets)
    /\ symbols' = Merge(alphabets)
    /\ pc' = "fill"
    /\ UNCHANGED <<inputs, abc, password, fill_length, i, draws, fills,
                   panic, result>>

\* one iteration of the while loop
produce_password_fill ==
    /\ pc = "fill" /\ callee = "produce_password"
    /\ FillMore(Len(password), length)
    /\ IF RangeIsEmpty(Len(symbols))
       THEN /\ Panics("empty range")
            /\ UNCHANGED <<password, i, draws, fills>>
       ELSE \E n \in GenRange(Len(symbols)) :
            /\ i' = n
            /\ draws' = draws + 1
            /\ fills' = fills + 1
            /\ password' = Append(password, symbols[n + 1])
            /\ UNCHANGED <<pc, panic>>
    /\ UNCHANGED <<inputs, abc, symbols, fill_length, result>>

\* shuffle, collect into a String, return
produce_password_return ==
    /\ pc = "fill" /\ callee = "produce_password"
    /\ ~FillMore(Len(password), length)
    /\ \E p \in Shuffles(password) :
        /\ password' = p
        /\ result' = Collect(p)
    /\ pc' = "done"
    /\ UNCHANGED <<inputs, abc, symbols, fill_length, i, draws, fills, panic>>

\* ---- PasswordFactory (main.rs) ---------------------------------------------
RECURSIVE collect_all_symbols(_)
\* for abc in self.alphabets.iter() { symbols.extend(abc.get()) }
collect_all_symbols(as) ==
    IF as = <<>> THEN <<>>
    ELSE Alphabet_get(Head(as)) \o collect_all_symbols(Tail(as))

\* usize subtraction a - b in a build without overflow checks
WrappingSub(a, b) == (a - b + UsizeModulus) % UsizeModulus

PasswordFactory_produce_begin ==
    /\ pc = "call" /\ callee = "PasswordFactory::produce"
    /\ password' = <<>>
    /\ abc' = 1
    /\ pc' = "from_each"
    /\ UNCHANGED <<inputs, symbols, fill_length, i, draws, fills, panic,
                   result>>

\* one iteration of the loop of random_from_each_alphabet
random_from_each_alphabet ==
    /\ pc = "from_each" /\ callee = "PasswordFactory::produce"
    /\ abc <= Len(alphabets)
    /\ LET src == alphabets[abc] IN
       IF RangeIsEmpty(Alphabet_len(src))
       THEN /\ Panics("empty range")
            /\ UNCHANGED <<abc, password, i, draws>>
       ELSE \E n \in GenRange(Alphabet_len(src)) :
            IF Alphabet_nth(src, n) = OutOfBounds
            THEN /\ Panics("index")
                 /\ i' = n
                 /\ draws' = draws + 1
                 /\ UNCHANGED <<abc, password>>
            ELSE /\ i' = n
                 /\ draws' = draws + 1
                 /\ password' = Append(password, Alphabet_nth(src, n))
                 /\ abc' = abc + 1
                 /\ UNCHANGED <<pc, panic>>
    /\ UNCHANGED <<inputs, symbols, fill_length, fills, result>>

\* self.length - symbols.len(), then the call of random_from_any_alphabet
\* up to its loop: on overflow a build with overflow checks (debug) panics
\* and a build without them (release) wraps
PasswordFactory_produce_subtract ==
    /\ pc = "from_each" /\ callee = "PasswordFactory::produce"
    /\ abc > Len(alphabets)
    /\ \E overflow_checks \in BOOLEAN :
        IF length < Len(password) /\ overflow_checks
        THEN /\ Panics("overflow")
             /\ UNCHANGED <<fill_length, symbols>>
        ELSE /\ fill_length' = WrappingSub(length, Len(password))
             /\ symbols' = collect_all_symbols(alphabets)
             /\ pc' = "from_any"
             /\ UNCHANGED panic
    /\ UNCHANGED <<inputs, abc, password, i, draws, fills, result>>

\* one iteration of `for _ in 0..length` of random_from_any_alphabet; when
\* the count exceeds what a Vec can hold, the loop runs until the push that
\* overflows the capacity, taken here as one step
random_from_any_alphabet ==
    /\ pc = "from_any" /\ callee = "PasswordFactory::produce"
    /\ fills < fill_length
    /\ IF RangeIsEmpty(Len(symbols))
       THEN /\ Panics("empty range")
            /\ UNCHANGED <<password, i, draws, fills>>
       ELSE IF fill_length > MaxVecLen
       THEN /\ Panics("alloc")
            /\ fills' = MaxVecLen
            /\ draws' = draws + MaxVecLen + 1
            /\ UNCHANGED <<password, i>>
       ELSE \E n \in GenRange(Len(symbols)) :
            /\ i' = n
            /\ draws' = draws + 1
            /\ fills' = fills + 1
            /\ password' = Append(password, symbols[n + 1])
            /\ UNCHANGED <<pc, panic>>
    /\ UNCHANGED <<inputs, abc, symbols, fill_length, result>>

\* extend, shuffle, collect into a String, return
PasswordFactory_produce_return ==
    /\ pc = "from_any" /\ callee = "PasswordFactory::produce"
    /\ fills >= fill_length
    /\ \E p \in Shuffles(password) :
        /\ password' = p
        /\ result' = Collect(p)
    /\ pc' = "done"
    /\ UNCHANGED <<inputs, abc, symbols, fill_length, i, draws, fills, panic>>

Next ==
    \/ run
    \/ produce_password_length_panic
    \/ produce_password_alphabets_panic
    \/ produce_password_begin
    \/ produce_password_each
    \/ produce_password_merge
    \/ produce_password_fill
    \/ produce_password_return
    \/ PasswordFactory_produce_begin
    \/ random_from_each_alphabet
    \/ PasswordFactory_produce_subtract
    \/ random_from_any_alphabet
    \/ PasswordFactory_produce_return

Spec == Init /\ [][Next]_vars

\* ---- vocabulary of the properties -----------------------------------------
SymbolsOf(a) == { a.symbols[k] : k \in 1 .. Len(a.symbols) }

Occurrences(c, seq) == Cardinality({ k \in 1 .. Len(seq) : seq[k] = c })

\* the symbols of the returned String
ResultChars == Chars(result)

Count == Len(alphabets)

AllNonEmpty == \A k \in 1 .. Count : Len(alphabets[k].symbols) >= 1

ValidInput == Count >= 1 /\ AllNonEmpty /\ length >= Count

Called == pc \notin {"new", "call"}

Core == callee = "produce_password"

Factory == callee = "PasswordFactory::produce"

Returned == pc = "done"

\* C1: whenever produce_password returns, the password holds, for each
\* supplied alphabet, at least one symbol that is a member of that alphabet;
\* and a valid call never panics.
C1_Coverage ==
    Core =>
        /\ Returned =>
            \A k \in 1 .. Count :
                \E p \in 1 .. Len(ResultChars) :
                    ResultChars[p] \in SymbolsOf(alphabets[k])
        /\ (Called /\ ValidInput) => pc # "panic"

C1_Witness ==
    /\ Core /\ Returned
    /\ Count = 2 /\ fills >= 1
    /\ SymbolsOf(alphabets[1]) \cap SymbolsOf(alphabets[2]) = {}
    /\ Len(alphabets[1].symbols) = 2

\* C2: the String produce_password returns has exactly `length` symbols.
C2_LengthExact ==
    (Core /\ Returned) => Len(ResultChars) = length

C2_Witness ==
    /\ Core /\ Returned
    /\ fills >= 1 /\ Count = 2
    /\ Len(result) > length

\* C3: with at least one alphabet and length < number of alphabets,
\* produce_password panics with the length message and returns nothing.
C3_LengthRejected ==
    (Core /\ Called /\ Count >= 1 /\ length < Count) =>
        /\ pc = "panic"
        /\ panic = "length"
        /\ result = <<>>

C3_Witness ==
    /\ Core /\ pc = "panic" /\ panic = "length"
    /\ Count = 2 /\ length = 1

\* C4: with no alphabets produce_password panics with the alphabets message
\* for every length, never with the length message and never by returning.
C4_EmptySetRejected ==
    (Core /\ Called /\ Count = 0) =>
        /\ pc = "panic"
        /\ panic = "alphabets"
        /\ result = <<>>

C4_Witness ==
    /\ Core /\ pc = "panic" /\ panic = "alphabets"
    /\ length = 0

\* C5: a call of produce_password that fails has drawn no random index
\* before it fails.
C5_FailsBeforeAnyDraw ==
    (Core /\ pc = "panic") => draws = 0

\* C6: every symbol of the password produce_password returns is a symbol of
\* at least one of the supplied alphabets.
C6_Closure ==
    (Core /\ Returned) =>
        \A p \in 1 .. Len(ResultChars) :
            \E k \in 1 .. Count : ResultChars[p] \in SymbolsOf(alphabets[k])

C6_Witness ==
    /\ Core /\ Returned
    /\ Count = 2 /\ fills = 1
    /\ Len(symbols) = 3

\* the bytes of a str that start a character
LeadBytes(s) == { k \in 1 .. Len(s) : s[k] < 128 \/ s[k] >= 192 }

C7_Accessors ==
    pc # "new" =>
        /\ Count = Len(args)
        /\ \A k \in 1 .. Count :
            LET a == alphabets[k] IN
            /\ Collect(Alphabet_get(a)) = args[k]
            /\ Alphabet_len(a) = Cardinality(LeadBytes(args[k]))
            /\ Len(Alphabet_get(a)) = Alphabet_len(a)
            /\ \A n \in 0 .. (MaxAlphabetLen + 1) :
                IF n < Alphabet_len(a)
                THEN Alphabet_nth(a, n) = Alphabet_get(a)[n + 1]
                ELSE Alphabet_nth(a, n) = OutOfBounds

\* C7: Alphabet::new(s) stores the symbols of s in order with duplicates
\* kept, len() is their number, get() is that sequence, nth(i) is the i-th
\* symbol for i < len() and the out-of-bounds failure for i >= len(); once
\* built, no step of a call changes an alphabet.
C7_AlphabetAccessors ==
    /\ []C7_Accessors
    /\ [][pc # "new" => alphabets' = alphabets]_vars

C7_Witness ==
    /\ draws >= 1 /\ Count = 2
    /\ Len(args[1]) = 4 /\ args[1][1] = args[1][3]
    /\ Len(alphabets[2].symbols) = 1

\* C8: when length equals the number of (non-empty) alphabets,
\* produce_password succeeds, the fill loop draws nothing, and the positions
\* of the password map one-to-one to alphabets holding their symbol.
C8_Boundary ==
    (Core /\ Called /\ ValidInput /\ length = Count) =>
        /\ pc # "panic"
        /\ fills = 0
        /\ Returned =>
            /\ Len(ResultChars) = Count
            /\ \E f \in Permutations(1 .. Count) :
                \A p \in 1 .. Count :
                    ResultChars[p] \in SymbolsOf(alphabets[f[p]])

C8_Witness ==
    /\ Core /\ Returned
    /\ length = 2 /\ Count = 2
    /\ SymbolsOf(alphabets[1]) # SymbolsOf(alphabets[2])
    /\ ResultChars[1] \notin SymbolsOf(alphabets[1])

\* a password produce_password can return for the input of this call
CanReturn(cs) ==
    /\ Len(cs) = length
    /\ \A p \in 1 .. Len(cs) :
        \E k \in 1 .. Count : cs[p] \in SymbolsOf(alphabets[k])
    /\ \E f \in [1 .. Count -> 1 .. Len(cs)] :
        /\ \A j, k \in 1 .. Count : f[j] = f[k] => j = k
        /\ \A k \in 1 .. Count : cs[f[k]] \in SymbolsOf(alphabets[k])

\* C9: PasswordFactory::produce returns only what produce_password can
\* return for the same input, fails wherever produce_password fails, and its
\* subtraction never yields a fill count when length < number of alphabets.
C9_CopiesAgree ==
    (Factory /\ Called) =>
        /\ Returned => (ValidInput /\ CanReturn(ResultChars))
        /\ pc = "panic" => ~ValidInput
        /\ pc = "from_any" => length >= Count
        /\ ~ValidInput => ~Returned

RECURSIVE SumLen(_)
SumLen(as) == IF as = <<>> THEN 0 ELSE Len(Head(as).symbols) + SumLen(Tail(as))

\* C10: the pool of produce_password is the concatenation of the alphabets
\* in input order with all duplicates kept, each fill draw is an index below
\* the pool size, and the fill loop draws length - (number of alphabets)
\* times and then stops.
C10_FillPhase ==
    (Core /\ pc \in {"fill", "done"}) =>
        /\ Len(symbols) = SumLen(alphabets)
        /\ \A k \in 1 .. Count :
            \A j \in 1 .. Len(alphabets[k].symbols) :
                symbols[SumLen(SubSeq(alphabets, 1, k - 1)) + j]
                    = alphabets[k].symbols[j]
        /\ \A c \in Scalars :
            Occurrences(c, symbols)
                = SumLen([k \in 1 .. Count |->
                            [symbols |-> SelectSeq(alphabets[k].symbols,
                                                   LAMBDA x : x = c)]])
        /\ fills <= length - Count
        /\ (pc = "fill" /\ fills >= 1) =>
            /\ i \in 0 .. (Len(symbols) - 1)
            /\ password[Len(password)] = symbols[i + 1]
        /\ Returned => fills = length - Count

C10_Witness ==
    /\ Core /\ Returned
    /\ fills >= 1 /\ Count = 2
    /\ \E c \in Scalars : Occurrences(c, symbols) = 3

TypeOK ==
    /\ pc \in {"new", "call", "each", "fill", "from_each", "from_any", "done",
              "panic"}
    /\ panic \in {"", "length", "alphabets", "empty range", "index",
                 "overflow", "alloc"}
====
